---- MODULE Spec2Model ----
(***************************************************************************)
(* A model of prstar.hpp: the partitioned multivector `entity<PMask>`, its *)
(* addition, subtraction, reversion and geometric product, the coefficient *)
(* accessors and the named entity types built on it.                       *)
(*                                                                         *)
(* A partition (4 packed floats) is a 4-tuple of integers; lane k of the   *)
(* source (data[k]) is element k+1 of the tuple.  An entity is a record    *)
(* [mask, parts]: the template parameter PMask and the array `parts`,      *)
(* whose element n of the source is element n+1 of the sequence.           *)
(***************************************************************************)
EXTENDS Integers, Sequences, FiniteSets, TLC

\* ------------------------------------------------------------------ bounds

\* Operand entities are drawn from seeds 0..MaxSeed (see LaneIn).
MaxSeed == 2

\* Storage that the code leaves uninitialised holds any of 0..MaxJunk.
MaxJunk == 1

\* Constructor arguments are drawn from 0..MaxCoef.
MaxCoef == 1

\* The homogeneous lane of an entity converted to a direction is drawn from
\* -MaxTick..MaxTick (see Eps for the unit).
MaxTick == 3

Slots == 0..3
Lanes == 0..3
Masks == 0..15
Seeds == 0..MaxSeed
JunkVals == 0..MaxJunk
CoefVals == 0..MaxCoef
TickVals == (0 - MaxTick)..MaxTick

\* --------------------------------------------------------- bit arithmetic

\* The C++ operator & on non-negative integers.
RECURSIVE BitAnd(_, _)
BitAnd(a, b) ==
    IF a = 0 \/ b = 0 THEN 0
    ELSE (a % 2) * (b % 2) + 2 * BitAnd(a \div 2, b \div 2)

\* The C++ operator | on non-negative integers.
RECURSIVE BitOr(_, _)
BitOr(a, b) ==
    IF a = 0 THEN b
    ELSE IF b = 0 THEN a
    ELSE (IF a % 2 = 1 \/ b % 2 = 1 THEN 1 ELSE 0) + 2 * BitOr(a \div 2, b \div 2)

\* The C++ operator >> on non-negative integers.
Shr(a, n) == a \div (2 ^ n)

\* ------------------------------------------------------- SSE intrinsics

\* _mm_set_ps(e3, e2, e1, e0): the LAST argument is lane 0.
SetPs(e3, e2, e1, e0) == <<e0, e1, e2, e3>>

Set1Ps(a) == <<a, a, a, a>>

AddPs(a, b) == [k \in 1..4 |-> a[k] + b[k]]

SubPs(a, b) == [k \in 1..4 |-> a[k] - b[k]]

MulPs(a, b) == [k \in 1..4 |-> a[k] * b[k]]

\* Mutant of XorSignPs: the sign mask built with _mm_set_ss(-0.0), which
\* sets lane 0 alone.
XorSignPs_LaneZeroOnly(a) == [k \in 1..4 |-> IF k = 1 THEN 0 - a[k] ELSE a[k]]

\* _mm_xor_ps(a, _mm_set1_ps(-0.0)): flips the sign bit of every lane.
XorSignPs(a) == [k \in 1..4 |-> 0 - a[k]]

\* ------------------------------------------------------ entity<PMask>

partition_count(PMask) ==
    BitAnd(PMask, 1) + BitAnd(Shr(PMask, 1), 1) + BitAnd(Shr(PMask, 2), 1)
        + BitAnd(Shr(PMask, 3), 1)

\* partition_offsets[i] is element i+1.
partition_offsets(PMask) ==
    << 0,
       BitAnd(PMask, 1),
       BitAnd(PMask, 1) + BitAnd(Shr(PMask, 1), 1),
       BitAnd(PMask, 1) + BitAnd(Shr(PMask, 1), 1) + BitAnd(Shr(PMask, 2), 1) >>

\* p0(), p1(), p2(), p3(): the register stored for slot i.
p(e, i) == e.parts[partition_offsets(e.mask)[i + 1] + 1]

\* `entity<PMask> out;`: the default constructor writes nothing, so every
\* lane holds whatever was there (junk).
entity_default(PMask, junk) ==
    [mask |-> PMask, parts |-> [n \in 1..partition_count(PMask) |-> Set1Ps(junk)]]

\* out.p0() = v, ..., out.p3() = v (the protected mutable accessors).
set_p(e, i, v) ==
    [e EXCEPT !.parts[partition_offsets(e.mask)[i + 1] + 1] = v]

\* p0() .. p3() const and p0f() .. p3f(), as the public may call them on any
\* entity: parts[partition_offsets[i]] with no test that slot i is present.
\* index is the storage index used; an index at or beyond partition_count
\* is outside `parts`, and what is read there is whatever lies behind the
\* storage (junk).
raw_p(e, i, junk) ==
    [slot |-> i,
     index |-> partition_offsets(e.mask)[i + 1],
     reg |-> IF partition_offsets(e.mask)[i + 1] < partition_count(e.mask)
             THEN e.parts[partition_offsets(e.mask)[i + 1] + 1]
             ELSE Set1Ps(junk)]

NoRaw == [slot |-> 0, index |-> 0, reg |-> Set1Ps(0)]

\* entity(entity const& other): copies partition_count partitions.
entity_copy(other) ==
    [mask |-> other.mask,
     parts |-> [n \in 1..partition_count(other.mask) |-> other.parts[n]]]

\* ------------------------------------------------------------- add_sub

\* One turn of the loop `for (m = 1; m != 0b10000; m <<= 1)` of the const
\* add_sub, with m = 2^i; st = [out, offset, lhs_offset, rhs_offset].
add_sub_step(Add, e, other, i, st) ==
    LET m == 2 ^ i IN
    IF BitAnd(e.mask, m) # 0
    THEN IF BitAnd(other.mask, m) # 0
         THEN [out |-> [st.out EXCEPT !.parts[st.offset + 1] =
                          IF Add
                          THEN AddPs(e.parts[st.lhs_offset + 1],
                                     other.parts[st.rhs_offset + 1])
                          ELSE SubPs(e.parts[st.lhs_offset + 1],
                                     other.parts[st.rhs_offset + 1])],
               offset |-> st.offset + 1,
               lhs_offset |-> st.lhs_offset + 1,
               rhs_offset |-> st.rhs_offset + 1]
         ELSE [out |-> [st.out EXCEPT !.parts[st.offset + 1] =
                          e.parts[st.lhs_offset + 1]],
               offset |-> st.offset + 1,
               lhs_offset |-> st.lhs_offset + 1,
               rhs_offset |-> st.rhs_offset]
    ELSE IF BitAnd(other.mask, m) # 0
         THEN [out |-> [st.out EXCEPT !.parts[st.offset + 1] =
                          IF Add
                          THEN other.parts[st.rhs_offset + 1]
                          ELSE XorSignPs(other.parts[st.rhs_offset + 1])],
               offset |-> st.offset + 1,
               lhs_offset |-> st.lhs_offset,
               rhs_offset |-> st.rhs_offset + 1]
         ELSE st

\* The loop: the turns for m = 2^i, ..., 0b1000 from st.  (The singleton
\* set binds s to the value of the turn, so that it is computed once.)
RECURSIVE add_sub_loop(_, _, _, _, _)
add_sub_loop(Add, e, other, i, st) ==
    IF i = 4 THEN st
    ELSE CHOOSE r \in {add_sub_loop(Add, e, other, i + 1, s) :
                          s \in {add_sub_step(Add, e, other, i, st)}} : TRUE

\* add_sub<Add>(other) const&
add_sub(Add, e, other, junk) ==
    LET pmask == BitOr(e.mask, other.mask) IN
    add_sub_loop(Add, e, other, 0,
                 [out |-> entity_default(pmask, junk),
                  offset |-> 0, lhs_offset |-> 0, rhs_offset |-> 0]).out

\* operator+ and operator- (const and non-const): *this is an lvalue in
\* both, so overload resolution picks the const& add_sub.
op_add(e, other, junk) == add_sub(TRUE, e, other, junk)

op_sub(e, other, junk) == add_sub(FALSE, e, other, junk)

\* One turn of the loop of the rvalue add_sub (the in-place branch);
\* st = [parts, offset, rhs_offset], parts being the receiver's own array.
add_sub_rvalue_step(Add, other, i, st) ==
    LET m == 2 ^ i IN
    IF BitAnd(other.mask, m) # 0
    THEN [parts |-> [st.parts EXCEPT ![st.offset + 1] =
                       IF Add
                       THEN AddPs(st.parts[st.offset + 1],
                                  other.parts[st.rhs_offset + 1])
                       ELSE SubPs(st.parts[st.offset + 1],
                                  other.parts[st.rhs_offset + 1])],
          offset |-> st.offset + 1,
          rhs_offset |-> st.rhs_offset + 1]
    ELSE st

RECURSIVE add_sub_rvalue_loop(_, _, _, _)
add_sub_rvalue_loop(Add, other, i, st) ==
    IF i = 4 THEN st
    ELSE CHOOSE r \in {add_sub_rvalue_loop(Add, other, i + 1, s) :
                          s \in {add_sub_rvalue_step(Add, other, i, st)}} : TRUE

\* add_sub<Add>(other) &&: [this |-> the receiver after the call,
\* out |-> the value returned].  `return *this` returns a copy (the return
\* type is deduced by `auto`, which drops the reference).
add_sub_rvalue(Add, e, other, junk) ==
    LET pmask == BitOr(e.mask, other.mask) IN
    IF pmask = e.mask
    THEN LET this == [e EXCEPT !.parts =
                        add_sub_rvalue_loop(Add, other, 0,
                            [parts |-> e.parts, offset |-> 0,
                             rhs_offset |-> 0]).parts]
         IN [this |-> this, out |-> entity_copy(this)]
    ELSE [this |-> e, out |-> entity_copy(add_sub(Add, e, other, junk))]

\* ------------------------------------------------------------ operator~

\* Mutant of op_reverse: slot p2 multiplied by _mm_set1_ps(-1.f), which
\* negates the pseudoscalar lane too.
op_reverse_P2AllNegated(e) ==
    LET o0 == entity_copy(e)
        o1 == IF BitAnd(e.mask, 2) > 0
              THEN set_p(o0, 1, MulPs(p(e, 1), SetPs(-1, -1, -1, 1)))
              ELSE o0
        o2 == IF BitAnd(e.mask, 4) > 0
              THEN set_p(o1, 2, MulPs(p(e, 2), Set1Ps(-1)))
              ELSE o1
    IN IF BitAnd(e.mask, 8) > 0
       THEN set_p(o2, 3, MulPs(p(e, 3), Set1Ps(-1)))
       ELSE o2

\* Mutant of op_reverse: the p2 branch reads p1() (a copied line left
\* unedited).
op_reverse_P2ReadsP1(e) ==
    LET o0 == entity_copy(e)
        o1 == IF BitAnd(e.mask, 2) > 0
              THEN set_p(o0, 1, MulPs(p(e, 1), SetPs(-1, -1, -1, 1)))
              ELSE o0
        o2 == IF BitAnd(e.mask, 4) > 0
              THEN set_p(o1, 2, MulPs(p(e, 1), SetPs(-1, -1, -1, 1)))
              ELSE o1
    IN IF BitAnd(e.mask, 8) > 0
       THEN set_p(o2, 3, MulPs(p(e, 3), Set1Ps(-1)))
       ELSE o2

\* operator~() const: `entity out = *this;` then one rewrite per slot
\* present among p1, p2, p3.
op_reverse(e) ==
    LET o0 == entity_copy(e)
        o1 == IF BitAnd(e.mask, 2) > 0
              THEN set_p(o0, 1, MulPs(p(e, 1), SetPs(-1, -1, -1, 1)))
              ELSE o0
        o2 == IF BitAnd(e.mask, 4) > 0
              THEN set_p(o1, 2, MulPs(p(e, 2), SetPs(-1, -1, -1, 1)))
              ELSE o1
    IN IF BitAnd(e.mask, 8) > 0
       THEN set_p(o2, 3, MulPs(p(e, 3), Set1Ps(-1)))
       ELSE o2

\* ------------------------------------------- partition-pair kernels gp_ij

\* The kernels multiply one partition by another in P(R*(3,0,1)), where
\* e0 e0 = 0, e1 e1 = e2 e2 = e3 e3 = 1 and two different generators
\* anticommute.  Lane k of slot i carries (element k of row i, from lane 0):
\*     p0: (e3, e2, e1, e0)          p1: (1, e12, e31, e23)
\*     p2: (e0123, e01, e02, e03)    p3: (e123, e021, e013, e032)
\* with eij = ei ej and eijk = ei ej ek.  Each kernel is written out lane by
\* lane (a[k+1], b[k+1] are lane k of the two arguments) and yields a
\* function from the slots of its return type (p1p2, p0p3, or the bare
\* register of p1 or p2) to the partition for that slot.

\* gp00: (e3, e2, e1, e0) by (e3, e2, e1, e0)
gp00(a, b) ==
    1 :> << a[1] * b[1] + a[2] * b[2] + a[3] * b[3],
              0 - a[2] * b[3] + a[3] * b[2],
              a[1] * b[3] - a[3] * b[1],
              0 - a[1] * b[2] + a[2] * b[1] >>
    @@ 2 :> << 0,
              0 - a[3] * b[4] + a[4] * b[3],
              0 - a[2] * b[4] + a[4] * b[2],
              0 - a[1] * b[4] + a[4] * b[1] >>

\* gp01: (e3, e2, e1, e0) by (1, e12, e31, e23)
gp01(a, b) ==
    0 :> << a[1] * b[1] + a[2] * b[4] - a[3] * b[3],
              0 - a[1] * b[4] + a[2] * b[1] + a[3] * b[2],
              a[1] * b[3] - a[2] * b[2] + a[3] * b[1],
              a[4] * b[1] >>
    @@ 3 :> << a[1] * b[2] + a[2] * b[3] + a[3] * b[4],
              0 - a[4] * b[2],
              0 - a[4] * b[3],
              0 - a[4] * b[4] >>

\* gp02: (e3, e2, e1, e0) by (e0123, e01, e02, e03)
gp02(a, b) ==
    0 :> << 0,
              0,
              0,
              0 - a[1] * b[4] - a[2] * b[3] - a[3] * b[2] >>
    @@ 3 :> << 0,
              a[1] * b[1] - a[2] * b[2] + a[3] * b[3],
              a[1] * b[2] + a[2] * b[1] - a[3] * b[4],
              0 - a[1] * b[3] + a[2] * b[4] + a[3] * b[1] >>

\* gp03: (e3, e2, e1, e0) by (e123, e021, e013, e032)
gp03(a, b) ==
    1 :> << 0,
              a[1] * b[1],
              a[2] * b[1],
              a[3] * b[1] >>
    @@ 2 :> << a[1] * b[2] + a[2] * b[3] + a[3] * b[4] + a[4] * b[1],
              a[1] * b[3] - a[2] * b[2],
              0 - a[1] * b[4] + a[3] * b[2],
              a[2] * b[4] - a[3] * b[3] >>

\* gp10: (1, e12, e31, e23) by (e3, e2, e1, e0)
gp10(a, b) ==
    0 :> << a[1] * b[1] + a[3] * b[3] - a[4] * b[2],
              a[1] * b[2] - a[2] * b[3] + a[4] * b[1],
              a[1] * b[3] + a[2] * b[2] - a[3] * b[1],
              a[1] * b[4] >>
    @@ 3 :> << a[2] * b[1] + a[3] * b[2] + a[4] * b[3],
              0 - a[2] * b[4],
              0 - a[3] * b[4],
              0 - a[4] * b[4] >>

\* gp11: (1, e12, e31, e23) by (1, e12, e31, e23)
gp11(a, b) ==
    1 :> << a[1] * b[1] - a[2] * b[2] - a[3] * b[3] - a[4] * b[4],
              a[1] * b[2] + a[2] * b[1] + a[3] * b[4] - a[4] * b[3],
              a[1] * b[3] - a[2] * b[4] + a[3] * b[1] + a[4] * b[2],
              a[1] * b[4] + a[2] * b[3] - a[3] * b[2] + a[4] * b[1] >>

\* gp12: (1, e12, e31, e23) by (e0123, e01, e02, e03)
gp12(a, b) ==
    2 :> << a[1] * b[1] + a[2] * b[4] + a[3] * b[3] + a[4] * b[2],
              a[1] * b[2] + a[2] * b[3] - a[3] * b[4] - a[4] * b[1],
              a[1] * b[3] - a[2] * b[2] - a[3] * b[1] + a[4] * b[4],
              a[1] * b[4] - a[2] * b[1] + a[3] * b[2] - a[4] * b[3] >>

\* gp13: (1, e12, e31, e23) by (e123, e021, e013, e032)
gp13(a, b) ==
    0 :> << 0 - a[2] * b[1],
              0 - a[3] * b[1],
              0 - a[4] * b[1],
              a[2] * b[2] + a[3] * b[3] + a[4] * b[4] >>
    @@ 3 :> << a[1] * b[1],
              a[1] * b[2] + a[3] * b[4] - a[4] * b[3],
              a[1] * b[3] - a[2] * b[4] + a[4] * b[2],
              a[1] * b[4] + a[2] * b[3] - a[3] * b[2] >>

\* gp20: (e0123, e01, e02, e03) by (e3, e2, e1, e0)
gp20(a, b) ==
    0 :> << 0,
              0,
              0,
              a[2] * b[3] + a[3] * b[2] + a[4] * b[1] >>
    @@ 3 :> << 0,
              0 - a[1] * b[1] - a[2] * b[2] + a[3] * b[3],
              0 - a[1] * b[2] + a[2] * b[1] - a[4] * b[3],
              0 - a[1] * b[3] - a[3] * b[1] + a[4] * b[2] >>

\* gp21: (e0123, e01, e02, e03) by (1, e12, e31, e23)
gp21(a, b) ==
    2 :> << a[1] * b[1] + a[2] * b[4] + a[3] * b[3] + a[4] * b[2],
              0 - a[1] * b[4] + a[2] * b[1] - a[3] * b[2] + a[4] * b[3],
              0 - a[1] * b[3] + a[2] * b[2] + a[3] * b[1] - a[4] * b[4],
              0 - a[1] * b[2] - a[2] * b[3] + a[3] * b[4] + a[4] * b[1] >>

\* gp23: (e0123, e01, e02, e03) by (e123, e021, e013, e032)
gp23(a, b) ==
    0 :> << 0,
              0,
              0,
              0 - a[1] * b[1] >>
    @@ 3 :> << 0,
              0 - a[4] * b[1],
              0 - a[3] * b[1],
              0 - a[2] * b[1] >>

\* gp30: (e123, e021, e013, e032) by (e3, e2, e1, e0)
gp30(a, b) ==
    1 :> << 0,
              a[1] * b[1],
              a[1] * b[2],
              a[1] * b[3] >>
    @@ 2 :> << 0 - a[1] * b[4] - a[2] * b[1] - a[3] * b[2] - a[4] * b[3],
              0 - a[2] * b[2] + a[3] * b[1],
              a[2] * b[3] - a[4] * b[1],
              0 - a[3] * b[3] + a[4] * b[2] >>

\* gp31: (e123, e021, e013, e032) by (1, e12, e31, e23)
gp31(a, b) ==
    0 :> << 0 - a[1] * b[2],
              0 - a[1] * b[3],
              0 - a[1] * b[4],
              a[2] * b[2] + a[3] * b[3] + a[4] * b[4] >>
    @@ 3 :> << a[1] * b[1],
              a[2] * b[1] + a[3] * b[4] - a[4] * b[3],
              0 - a[2] * b[4] + a[3] * b[1] + a[4] * b[2],
              a[2] * b[3] - a[3] * b[2] + a[4] * b[1] >>

\* gp32: (e123, e021, e013, e032) by (e0123, e01, e02, e03)
gp32(a, b) ==
    0 :> << 0,
              0,
              0,
              a[1] * b[1] >>
    @@ 3 :> << 0,
              a[1] * b[4],
              a[1] * b[3],
              a[1] * b[2] >>

\* gp33: (e123, e021, e013, e032) by (e123, e021, e013, e032)
gp33(a, b) ==
    1 :> << 0 - a[1] * b[1],
              0,
              0,
              0 >>
    @@ 2 :> << 0,
              0 - a[1] * b[4] + a[4] * b[1],
              0 - a[1] * b[3] + a[3] * b[1],
              0 - a[1] * b[2] + a[2] * b[1] >>

\* The call gp_ij(a, b).  (The singleton sets bind x and y to the values of
\* the arguments, so that each is computed once.)
gp(i, j, a, b) ==
    CHOOSE r \in {CASE i = 0 /\ j = 0 -> gp00(x, y)
                   [] i = 0 /\ j = 1 -> gp01(x, y)
                   [] i = 0 /\ j = 2 -> gp02(x, y)
                   [] i = 0 /\ j = 3 -> gp03(x, y)
                   [] i = 1 /\ j = 0 -> gp10(x, y)
                   [] i = 1 /\ j = 1 -> gp11(x, y)
                   [] i = 1 /\ j = 2 -> gp12(x, y)
                   [] i = 1 /\ j = 3 -> gp13(x, y)
                   [] i = 2 /\ j = 0 -> gp20(x, y)
                   [] i = 2 /\ j = 1 -> gp21(x, y)
                   [] i = 2 /\ j = 3 -> gp23(x, y)
                   [] i = 3 /\ j = 0 -> gp30(x, y)
                   [] i = 3 /\ j = 1 -> gp31(x, y)
                   [] i = 3 /\ j = 2 -> gp32(x, y)
                   [] i = 3 /\ j = 3 -> gp33(x, y) : x \in {a}, y \in {b}} : TRUE

\* ------------------------------------------------------------ operator*

\* Mutant of GpBranches: the gp02 branch assigns its outputs, as the gp01
\* branch before it does, instead of adding them.
GpBranches_Gp02Assigns ==
    << [i |-> 0, j |-> 0, ret |-> {1, 2}, add |-> FALSE],
       [i |-> 0, j |-> 1, ret |-> {0, 3}, add |-> FALSE],
       [i |-> 0, j |-> 2, ret |-> {0, 3}, add |-> FALSE],
       [i |-> 0, j |-> 3, ret |-> {1, 2}, add |-> TRUE],
       [i |-> 1, j |-> 0, ret |-> {0, 3}, add |-> TRUE],
       [i |-> 1, j |-> 1, ret |-> {1}, add |-> TRUE],
       [i |-> 1, j |-> 2, ret |-> {2}, add |-> TRUE],
       [i |-> 1, j |-> 3, ret |-> {0, 3}, add |-> TRUE],
       [i |-> 2, j |-> 0, ret |-> {0, 3}, add |-> TRUE],
       [i |-> 2, j |-> 1, ret |-> {2}, add |-> TRUE],
       [i |-> 2, j |-> 3, ret |-> {0, 3}, add |-> TRUE],
       [i |-> 3, j |-> 0, ret |-> {1, 2}, add |-> TRUE],
       [i |-> 3, j |-> 1, ret |-> {0, 3}, add |-> TRUE],
       [i |-> 3, j |-> 2, ret |-> {0, 3}, add |-> TRUE],
       [i |-> 3, j |-> 3, ret |-> {1, 2}, add |-> TRUE] >>

\* The `if constexpr` branches of operator*, in source order: the branch
\* for gp_ij is taken when slot i of *this and slot j of rhs are present;
\* ret is the set of slots the kernel's return type carries (p1p2, p0p3, or
\* a bare register for p1 or p2); add tells `x = _mm_add_ps(x, r)` from
\* `x = r`.  There is no branch for (p2, p2).
GpBranches ==
    << [i |-> 0, j |-> 0, ret |-> {1, 2}, add |-> FALSE],
       [i |-> 0, j |-> 1, ret |-> {0, 3}, add |-> FALSE],
       [i |-> 0, j |-> 2, ret |-> {0, 3}, add |-> TRUE],
       [i |-> 0, j |-> 3, ret |-> {1, 2}, add |-> TRUE],
       [i |-> 1, j |-> 0, ret |-> {0, 3}, add |-> TRUE],
       [i |-> 1, j |-> 1, ret |-> {1}, add |-> TRUE],
       [i |-> 1, j |-> 2, ret |-> {2}, add |-> TRUE],
       [i |-> 1, j |-> 3, ret |-> {0, 3}, add |-> TRUE],
       [i |-> 2, j |-> 0, ret |-> {0, 3}, add |-> TRUE],
       [i |-> 2, j |-> 1, ret |-> {2}, add |-> TRUE],
       [i |-> 2, j |-> 3, ret |-> {0, 3}, add |-> TRUE],
       [i |-> 3, j |-> 0, ret |-> {1, 2}, add |-> TRUE],
       [i |-> 3, j |-> 1, ret |-> {0, 3}, add |-> TRUE],
       [i |-> 3, j |-> 2, ret |-> {0, 3}, add |-> TRUE],
       [i |-> 3, j |-> 3, ret |-> {1, 2}, add |-> TRUE] >>

\* The arguments of the call gp_ij(p_i(), rhs.p_j()).
gp_args(e, rhs_, i, j) == << p(e, i), p(rhs_, j) >>

\* One branch; acc = [p, calls]: the accumulators <<p0_, p1_, p2_, p3_>>
\* and the log of the kernel calls made, each <<i, j, first argument,
\* second argument>>.
mul_branch(e, rhs_, br, acc) ==
    IF BitAnd(e.mask, 2 ^ br.i) > 0 /\ BitAnd(rhs_.mask, 2 ^ br.j) > 0
    THEN CHOOSE st \in
             {[p |-> << IF 0 \in br.ret
                        THEN (IF br.add THEN AddPs(acc.p[1], r[0]) ELSE r[0])
                        ELSE acc.p[1],
                        IF 1 \in br.ret
                        THEN (IF br.add THEN AddPs(acc.p[2], r[1]) ELSE r[1])
                        ELSE acc.p[2],
                        IF 2 \in br.ret
                        THEN (IF br.add THEN AddPs(acc.p[3], r[2]) ELSE r[2])
                        ELSE acc.p[3],
                        IF 3 \in br.ret
                        THEN (IF br.add THEN AddPs(acc.p[4], r[3]) ELSE r[3])
                        ELSE acc.p[4] >>,
               calls |-> Append(acc.calls, <<br.i, br.j, args[1], args[2]>>)] :
                 args \in {gp_args(e, rhs_, br.i, br.j)},
                 r \in {gp(br.i, br.j, gp_args(e, rhs_, br.i, br.j)[1],
                           gp_args(e, rhs_, br.i, br.j)[2])}} : TRUE
    ELSE acc

\* The branches from the n-th on, in order.  (The singleton set binds a to
\* the value of the branch, so that it is computed once.)
RECURSIVE mul_branches(_, _, _, _)
mul_branches(e, rhs_, n, acc) ==
    IF n > Len(GpBranches) THEN acc
    ELSE CHOOSE r \in {mul_branches(e, rhs_, n + 1, a) :
                          a \in {mul_branch(e, rhs_, GpBranches[n], acc)}} : TRUE

p0_set(PMask, PMask2) ==
    \/ (BitAnd(PMask, 1) # 0 /\ BitAnd(PMask2, 6) # 0)
    \/ (BitAnd(PMask, 6) # 0 /\ BitAnd(PMask2, 1) # 0)
    \/ (BitAnd(PMask, 2) # 0 /\ BitAnd(PMask2, 8) # 0)
    \/ (BitAnd(PMask, 8) # 0 /\ BitAnd(PMask2, 2) # 0)

\* Mutant of p1_set: the literal written 01001, which C++ reads as octal
\* (513, whose low four bits are 0001).
p1_set_OctalLiteral(PMask, PMask2) ==
    \/ (BitAnd(PMask, 513) # 0 /\ BitAnd(PMask2, 9) # 0)
    \/ (BitAnd(PMask, 2) # 0 /\ BitAnd(PMask2, 2) # 0)

\* The source writes the DECIMAL literal 1001 for the first mask.
p1_set(PMask, PMask2) ==
    \/ (BitAnd(PMask, 1001) # 0 /\ BitAnd(PMask2, 9) # 0)
    \/ (BitAnd(PMask, 2) # 0 /\ BitAnd(PMask2, 2) # 0)

p2_set(PMask, PMask2) ==
    \/ (BitAnd(PMask, 1001) # 0 /\ BitAnd(PMask2, 9) # 0)
    \/ (BitAnd(PMask, 2) # 0 /\ BitAnd(PMask2, 4) # 0)
    \/ (BitAnd(PMask, 4) # 0 /\ BitAnd(PMask2, 2) # 0)

p3_set(PMask, PMask2) ==
    \/ (BitAnd(PMask, 6) # 0 /\ BitAnd(PMask2, 9) # 0)
    \/ (BitAnd(PMask, 9) # 0 /\ BitAnd(PMask2, 6) # 0)

BoolInt(b) == IF b THEN 1 ELSE 0

out_mask(PMask, PMask2) ==
    BitOr(BitOr(BoolInt(p3_set(PMask, PMask2)) * 8,
                BoolInt(p2_set(PMask, PMask2)) * 4),
          BitOr(BoolInt(p1_set(PMask, PMask2)) * 2,
                BoolInt(p0_set(PMask, PMask2))))

\* operator*(rhs) const: [out |-> the product, calls |-> the kernel calls].
op_mul(e, rhs_, junk) ==
    CHOOSE res \in
        {LET o == entity_default(out_mask(e.mask, rhs_.mask), junk)
             o0 == IF p0_set(e.mask, rhs_.mask) THEN set_p(o, 0, acc.p[1]) ELSE o
             o1 == IF p1_set(e.mask, rhs_.mask) THEN set_p(o0, 1, acc.p[2]) ELSE o0
             o2 == IF p2_set(e.mask, rhs_.mask) THEN set_p(o1, 2, acc.p[3]) ELSE o1
             o3 == IF p3_set(e.mask, rhs_.mask) THEN set_p(o2, 3, acc.p[4]) ELSE o2
         IN [out |-> o3, calls |-> acc.calls] :
             acc \in {mul_branches(e, rhs_, 1,
                          [p |-> <<Set1Ps(0), Set1Ps(0), Set1Ps(0), Set1Ps(0)>>,
                           calls |-> << >>])}} : TRUE

\* ------------------------------------------------- coefficient accessors

AccessorNames ==
    {"scalar", "e0", "e1", "e2", "e3", "e12", "e21", "e31", "e13", "e23", "e32",
     "e01", "e10", "e02", "e20", "e03", "e30", "e123", "e021", "e013", "e032",
     "e0123"}

\* Mutant of AccessorTable: e13() returns data[2] without the minus sign.
AccessorTable_E13NotNegated ==
    [name \in AccessorNames |->
        CASE name = "scalar" -> [test |-> 2, off |-> 1, lane |-> 0, neg |-> FALSE]
          [] name = "e0" -> [test |-> 1, off |-> 0, lane |-> 3, neg |-> FALSE]
          [] name = "e1" -> [test |-> 1, off |-> 0, lane |-> 2, neg |-> FALSE]
          [] name = "e2" -> [test |-> 1, off |-> 0, lane |-> 1, neg |-> FALSE]
          [] name = "e3" -> [test |-> 1, off |-> 0, lane |-> 0, neg |-> FALSE]
          [] name = "e12" -> [test |-> 2, off |-> 1, lane |-> 1, neg |-> FALSE]
          [] name = "e21" -> [test |-> 2, off |-> 1, lane |-> 1, neg |-> TRUE]
          [] name = "e31" -> [test |-> 2, off |-> 1, lane |-> 2, neg |-> FALSE]
          [] name = "e13" -> [test |-> 2, off |-> 1, lane |-> 2, neg |-> FALSE]
          [] name = "e23" -> [test |-> 2, off |-> 1, lane |-> 3, neg |-> FALSE]
          [] name = "e32" -> [test |-> 2, off |-> 1, lane |-> 3, neg |-> TRUE]
          [] name = "e01" -> [test |-> 4, off |-> 2, lane |-> 1, neg |-> FALSE]
          [] name = "e10" -> [test |-> 4, off |-> 2, lane |-> 1, neg |-> TRUE]
          [] name = "e02" -> [test |-> 4, off |-> 2, lane |-> 2, neg |-> FALSE]
          [] name = "e20" -> [test |-> 4, off |-> 2, lane |-> 2, neg |-> TRUE]
          [] name = "e03" -> [test |-> 4, off |-> 2, lane |-> 3, neg |-> FALSE]
          [] name = "e30" -> [test |-> 4, off |-> 2, lane |-> 3, neg |-> TRUE]
          [] name = "e123" -> [test |-> 8, off |-> 3, lane |-> 0, neg |-> FALSE]
          [] name = "e021" -> [test |-> 8, off |-> 3, lane |-> 1, neg |-> FALSE]
          [] name = "e013" -> [test |-> 8, off |-> 3, lane |-> 2, neg |-> FALSE]
          [] name = "e032" -> [test |-> 8, off |-> 3, lane |-> 3, neg |-> FALSE]
          [] name = "e0123" -> [test |-> 4, off |-> 2, lane |-> 0, neg |-> FALSE]]

\* Each accessor as written: `if constexpr ((PMask & test) > 0) return
\* [-]parts[partition_offsets[off]].data[lane]; else return 0.f;`.
AccessorTable ==
    [name \in AccessorNames |->
        CASE name = "scalar" -> [test |-> 2, off |-> 1, lane |-> 0, neg |-> FALSE]
          [] name = "e0" -> [test |-> 1, off |-> 0, lane |-> 3, neg |-> FALSE]
          [] name = "e1" -> [test |-> 1, off |-> 0, lane |-> 2, neg |-> FALSE]
          [] name = "e2" -> [test |-> 1, off |-> 0, lane |-> 1, neg |-> FALSE]
          [] name = "e3" -> [test |-> 1, off |-> 0, lane |-> 0, neg |-> FALSE]
          [] name = "e12" -> [test |-> 2, off |-> 1, lane |-> 1, neg |-> FALSE]
          [] name = "e21" -> [test |-> 2, off |-> 1, lane |-> 1, neg |-> TRUE]
          [] name = "e31" -> [test |-> 2, off |-> 1, lane |-> 2, neg |-> FALSE]
          [] name = "e13" -> [test |-> 2, off |-> 1, lane |-> 2, neg |-> TRUE]
          [] name = "e23" -> [test |-> 2, off |-> 1, lane |-> 3, neg |-> FALSE]
          [] name = "e32" -> [test |-> 2, off |-> 1, lane |-> 3, neg |-> TRUE]
          [] name = "e01" -> [test |-> 4, off |-> 2, lane |-> 1, neg |-> FALSE]
          [] name = "e10" -> [test |-> 4, off |-> 2, lane |-> 1, neg |-> TRUE]
          [] name = "e02" -> [test |-> 4, off |-> 2, lane |-> 2, neg |-> FALSE]
          [] name = "e20" -> [test |-> 4, off |-> 2, lane |-> 2, neg |-> TRUE]
          [] name = "e03" -> [test |-> 4, off |-> 2, lane |-> 3, neg |-> FALSE]
          [] name = "e30" -> [test |-> 4, off |-> 2, lane |-> 3, neg |-> TRUE]
          [] name = "e123" -> [test |-> 8, off |-> 3, lane |-> 0, neg |-> FALSE]
          [] name = "e021" -> [test |-> 8, off |-> 3, lane |-> 1, neg |-> FALSE]
          [] name = "e013" -> [test |-> 8, off |-> 3, lane |-> 2, neg |-> FALSE]
          [] name = "e032" -> [test |-> 8, off |-> 3, lane |-> 3, neg |-> FALSE]
          [] name = "e0123" -> [test |-> 4, off |-> 2, lane |-> 0, neg |-> FALSE]]

\* scalar(), e0(), ..., e0123()
accessor(e, name) ==
    LET a == AccessorTable[name] IN
    IF BitAnd(e.mask, a.test) > 0
    THEN LET v == e.parts[partition_offsets(e.mask)[a.off + 1] + 1][a.lane + 1]
         IN IF a.neg THEN 0 - v ELSE v
    ELSE 0

\* ---------------------------------------------------- named entity types

\* A value of a named type: [type, ent], ent being its entity base.
Named(type, PMask, parts) == [type |-> type, ent |-> [mask |-> PMask, parts |-> parts]]

NoNamed == Named("none", 0, << >>)

\* motor(a, b, c, d, e, f, g, h)
motor_coef(a, b, c, d, e, f, g, h) ==
    Named("motor", 6, << <<a, b, c, d>>, <<e, f, g, h>> >>)

\* Mutant of plane_coef: the arguments stored in the order given, without
\* the rearrangement to (e3, e2, e1, e0).
plane_coef_NoRearrangement(a, b, c, d) == Named("plane", 1, << SetPs(d, c, b, a) >>)

\* plane(a, b, c, d)
plane_coef(a, b, c, d) == Named("plane", 1, << SetPs(d, a, b, c) >>)

\* line(d, e, f)
line_coef(d, e, f) == Named("line", 2, << SetPs(f, e, d, 0) >>)

\* ideal_line(a, b, c)
ideal_line_coef(a, b, c) == Named("ideal_line", 4, << SetPs(c, b, a, 0) >>)

\* bivector(a, b, c, d, e, f)
bivector_coef(a, b, c, d, e, f) ==
    Named("bivector", 6, << SetPs(f, e, d, 0), SetPs(c, b, a, 0) >>)

\* point(x, y, z)
point_coef(x, y, z) == Named("point", 8, << SetPs(x, y, z, 1) >>)

\* direction(x, y, z)
direction_coef(x, y, z) == Named("direction", 8, << SetPs(x, y, z, 0) >>)

DefaultTypes == {"motor", "plane", "line", "ideal_line", "bivector", "point", "direction"}

\* The default constructors.  motor, plane, point and direction are
\* `= default` and write nothing; line(), ideal_line() and bivector() write
\* 0 to lane 0 of each partition and nothing else.  u[1..8] is what the
\* storage held.
named_default(type, u) ==
    CASE type = "motor" -> Named(type, 6, << <<u[1], u[2], u[3], u[4]>>,
                                             <<u[5], u[6], u[7], u[8]>> >>)
      [] type = "plane" -> Named(type, 1, << <<u[1], u[2], u[3], u[4]>> >>)
      [] type = "line" -> Named(type, 2, << <<0, u[2], u[3], u[4]>> >>)
      [] type = "ideal_line" -> Named(type, 4, << <<0, u[2], u[3], u[4]>> >>)
      [] type = "bivector" -> Named(type, 6, << <<0, u[2], u[3], u[4]>>,
                                                <<0, u[6], u[7], u[8]>> >>)
      [] type = "point" -> Named(type, 8, << <<u[1], u[2], u[3], u[4]>> >>)
      [] type = "direction" -> Named(type, 8, << <<u[1], u[2], u[3], u[4]>> >>)

\* The implicit copy constructor of a named type: the base's copy
\* constructor.
named_copy(v) == [type |-> v.type, ent |-> entity_copy(v.ent)]

\* bivector(entity<0b110> const& e) : entity{e} {}
bivector_from_entity(e) == [type |-> "bivector", ent |-> entity_copy(e)]

\* point(entity<0b1000> const& e) : entity{e} {}
point_from_entity(e) == [type |-> "point", ent |-> entity_copy(e)]

\* The bound 1e-7 of the assertion of direction's converting constructor.
\* The lanes of the entity converted are counted in units of 0.5e-7 (the
\* conversion copies and compares, so the unit is free), in which the
\* bound is 2.
Eps == 2

\* Mutant of direction_from_entity: the assertion written with <= and >=.
direction_from_entity_NotStrict(e, validating) ==
    LET this == entity_copy(e) IN
    [value |-> [type |-> "direction", ent |-> this],
     aborted |-> validating /\ ~(this.parts[1][1] <= Eps /\ this.parts[1][1] >= 0 - Eps)]

\* direction(entity<0b1000> const& e) : entity{e}, then, under
\* PRSTAR_VALIDATE, assert(parts[0].data[0] < 1e-7 && parts[0].data[0] > -1e-7).
direction_from_entity(e, validating) ==
    LET this == entity_copy(e) IN
    [value |-> [type |-> "direction", ent |-> this],
     aborted |-> validating /\ ~(this.parts[1][1] < Eps /\ this.parts[1][1] > 0 - Eps)]

\* ------------------------------------------------------------- operands

\* Lane k of slot i of the operand with seed s: small integers of both
\* signs, zero included, different from slot to slot and seed to seed.
LaneIn(s, i, k) ==
    (((2 * s + 1) * (k + 1) * (k + 1) + (i + 1) * (k + 2) + 3 * s * i + s) % 7) - 3

PartIn(s, i) == [k \in 1..4 |-> LaneIn(s, i, k - 1)]

PresentSlots(M) == {i \in Slots : BitAnd(M, 2 ^ i) # 0}

RECURSIVE PackedFrom(_, _, _)
PackedFrom(M, s, i) ==
    IF i = 4 THEN << >>
    ELSE IF i \in PresentSlots(M) THEN << PartIn(s, i) >> \o PackedFrom(M, s, i + 1)
    ELSE PackedFrom(M, s, i + 1)

EntityIn(M, s) == [mask |-> M, parts |-> PackedFrom(M, s, 0)]

Entities == {EntityIn(M, s) : M \in Masks, s \in Seeds}

NoEntity == [mask |-> 0, parts |-> << >>]

\* ---------------------------------------------------------------- state

VARIABLES
    lhs,        \* the receiver (*this) of the operation
    rhs,        \* the argument (other / rhs)
    op,         \* the operation performed last
    out,        \* the value it returned
    recv,       \* the temporary receiver of the rvalue add_sub, after the call
    calls,      \* the kernel calls of operator*, in the order made
    acc,        \* the coefficient accessor called last
    val,        \* the float it returned
    raw,        \* the raw partition accessor called last, and what it did
    named,      \* the value of a named type constructed last
    src,        \* the entity a converting constructor was given
    ctor,       \* the constructor run last
    validate,   \* the build defines PRSTAR_VALIDATE
    aborted     \* an assertion failed: the program has aborted

entityVars == <<lhs, rhs, op, out, recv, calls, acc, val, raw>>

namedVars == <<named, src, ctor, validate, aborted>>

vars == <<entityVars, namedVars>>

Init ==
    /\ lhs \in Entities
    /\ rhs \in Entities
    /\ op = "init"
    /\ out = NoEntity
    /\ recv = NoEntity
    /\ calls = << >>
    /\ acc = "none"
    /\ val = 0
    /\ raw = NoRaw
    /\ named = NoNamed
    /\ src = NoEntity
    /\ ctor = "none"
    /\ validate = FALSE
    /\ aborted = FALSE

\* lhs + rhs
OperatorPlus ==
    /\ op = "init"
    /\ \E junk \in JunkVals : out' = op_add(lhs, rhs, junk)
    /\ op' = "add"
    /\ UNCHANGED <<lhs, rhs, recv, calls, acc, val, raw, namedVars>>

\* lhs - rhs
OperatorMinus ==
    /\ op = "init"
    /\ \E junk \in JunkVals : out' = op_sub(lhs, rhs, junk)
    /\ op' = "sub"
    /\ UNCHANGED <<lhs, rhs, recv, calls, acc, val, raw, namedVars>>

\* entity(lhs).add_sub<Add>(rhs): the rvalue overload on a temporary copy
\* of lhs.
AddSubRvalue ==
    /\ op = "init"
    /\ \E Add \in BOOLEAN, junk \in JunkVals :
          LET r == add_sub_rvalue(Add, entity_copy(lhs), rhs, junk) IN
          /\ out' = r.out
          /\ recv' = r.this
          /\ op' = IF Add THEN "add_rv" ELSE "sub_rv"
    /\ UNCHANGED <<lhs, rhs, calls, acc, val, raw, namedVars>>

\* ~lhs
Reverse ==
    /\ op = "init"
    /\ out' = op_reverse(lhs)
    /\ op' = "reverse"
    /\ UNCHANGED <<lhs, rhs, recv, calls, acc, val, raw, namedVars>>

\* ~~lhs: the second reversion, applied to the value the first returned.
ReverseAgain ==
    /\ op = "reverse"
    /\ out' = op_reverse(out)
    /\ op' = "reverse2"
    /\ UNCHANGED <<lhs, rhs, recv, calls, acc, val, raw, namedVars>>

\* lhs * rhs
Multiply ==
    /\ op = "init"
    /\ \E junk \in JunkVals :
          LET r == op_mul(lhs, rhs, junk) IN
          /\ out' = r.out
          /\ calls' = r.calls
    /\ op' = "mul"
    /\ UNCHANGED <<lhs, rhs, recv, acc, val, raw, namedVars>>

\* lhs.scalar(), lhs.e0(), ..., lhs.e0123()
Access ==
    /\ op = "init"
    /\ \E name \in AccessorNames :
          /\ acc' = name
          /\ val' = accessor(lhs, name)
    /\ op' = "access"
    /\ UNCHANGED <<lhs, rhs, out, recv, calls, raw, namedVars>>

Next ==
    \/ OperatorPlus
    \/ OperatorMinus
    \/ AddSubRvalue
    \/ Reverse
    \/ ReverseAgain
    \/ Multiply
    \/ Access

Spec == Init /\ [][Next]_vars

\* lhs.p0(), ..., lhs.p3(): the register of slot i.
RawRegister ==
    /\ op = "init"
    /\ \E i \in Slots, junk \in JunkVals : raw' = raw_p(lhs, i, junk)
    /\ op' = "raw"
    /\ UNCHANGED <<lhs, rhs, out, recv, calls, acc, val, namedVars>>

\* lhs.p0f(), ..., lhs.p3f(): the four floats of slot i.
RawFloats ==
    /\ op = "init"
    /\ \E i \in Slots, junk \in JunkVals : raw' = raw_p(lhs, i, junk)
    /\ op' = "rawf"
    /\ UNCHANGED <<lhs, rhs, out, recv, calls, acc, val, namedVars>>

NextRaw ==
    \/ RawRegister
    \/ RawFloats

\* The receiver is an entity with at least one slot.
InitRaw ==
    /\ Init
    /\ lhs.mask # 0

SpecRaw == InitRaw /\ [][NextRaw]_vars

\* The same operations on two planes built from coefficients.
InitPlanes ==
    /\ lhs \in {plane_coef(a, b, c, d).ent :
                    a \in CoefVals, b \in CoefVals, c \in CoefVals, d \in CoefVals}
    /\ rhs \in {plane_coef(a, b, c, d).ent :
                    a \in CoefVals, b \in CoefVals, c \in CoefVals, d \in CoefVals}
    /\ op = "init"
    /\ out = NoEntity
    /\ recv = NoEntity
    /\ calls = << >>
    /\ acc = "none"
    /\ val = 0
    /\ raw = NoRaw
    /\ named = NoNamed
    /\ src = NoEntity
    /\ ctor = "none"
    /\ validate = FALSE
    /\ aborted = FALSE

SpecPlanes == InitPlanes /\ [][Next]_vars

\* ------------------------------------------- constructing named values

InitNamed ==
    /\ lhs = NoEntity
    /\ rhs = NoEntity
    /\ op = "init"
    /\ out = NoEntity
    /\ recv = NoEntity
    /\ calls = << >>
    /\ acc = "none"
    /\ val = 0
    /\ raw = NoRaw
    /\ named = NoNamed
    /\ src = NoEntity
    /\ ctor = "none"
    /\ validate \in BOOLEAN
    /\ aborted = FALSE

\* motor(), plane(), line(), ideal_line(), bivector(), point(), direction()
ConstructDefault ==
    /\ ctor = "none"
    /\ \E type \in DefaultTypes, u \in [1..8 -> JunkVals] :
          named' = named_default(type, u)
    /\ ctor' = "default"
    /\ UNCHANGED <<src, validate, aborted, entityVars>>

MotorCoef ==
    /\ ctor = "none"
    /\ \E a \in CoefVals, b \in CoefVals, c \in CoefVals, d \in CoefVals,
          e \in CoefVals, f \in CoefVals, g \in CoefVals, h \in CoefVals :
          named' = motor_coef(a, b, c, d, e, f, g, h)
    /\ ctor' = "coef"
    /\ UNCHANGED <<src, validate, aborted, entityVars>>

PlaneCoef ==
    /\ ctor = "none"
    /\ \E a \in CoefVals, b \in CoefVals, c \in CoefVals, d \in CoefVals :
          named' = plane_coef(a, b, c, d)
    /\ ctor' = "coef"
    /\ UNCHANGED <<src, validate, aborted, entityVars>>

LineCoef ==
    /\ ctor = "none"
    /\ \E d \in CoefVals, e \in CoefVals, f \in CoefVals :
          named' = line_coef(d, e, f)
    /\ ctor' = "coef"
    /\ UNCHANGED <<src, validate, aborted, entityVars>>

IdealLineCoef ==
    /\ ctor = "none"
    /\ \E a \in CoefVals, b \in CoefVals, c \in CoefVals :
          named' = ideal_line_coef(a, b, c)
    /\ ctor' = "coef"
    /\ UNCHANGED <<src, validate, aborted, entityVars>>

BivectorCoef ==
    /\ ctor = "none"
    /\ \E a \in CoefVals, b \in CoefVals, c \in CoefVals, d \in CoefVals,
          e \in CoefVals, f \in CoefVals :
          named' = bivector_coef(a, b, c, d, e, f)
    /\ ctor' = "coef"
    /\ UNCHANGED <<src, validate, aborted, entityVars>>

PointCoef ==
    /\ ctor = "none"
    /\ \E x \in CoefVals, y \in CoefVals, z \in CoefVals :
          named' = point_coef(x, y, z)
    /\ ctor' = "coef"
    /\ UNCHANGED <<src, validate, aborted, entityVars>>

DirectionCoef ==
    /\ ctor = "none"
    /\ \E x \in CoefVals, y \in CoefVals, z \in CoefVals :
          named' = direction_coef(x, y, z)
    /\ ctor' = "coef"
    /\ UNCHANGED <<src, validate, aborted, entityVars>>

\* T copy = named;
CopyNamed ==
    /\ ctor \in {"default", "coef"}
    /\ named' = named_copy(named)
    /\ ctor' = "copy"
    /\ UNCHANGED <<src, validate, aborted, entityVars>>

\* bivector b = named; for a named value whose base is entity<0b110> (a
\* motor, say).
BivectorFromEntity ==
    /\ ctor \in {"default", "coef"}
    /\ named.ent.mask = 6
    /\ src' = named.ent
    /\ named' = bivector_from_entity(named.ent)
    /\ ctor' = "bivector_from_entity"
    /\ UNCHANGED <<validate, aborted, entityVars>>

\* bivector b = plane(a1, b1, c1, d1) * plane(a2, b2, c2, d2); the product
\* of two planes is an entity<0b110>.
BivectorFromProduct ==
    /\ ctor = "none"
    /\ \E a1 \in CoefVals, b1 \in CoefVals, c1 \in CoefVals, d1 \in CoefVals,
          a2 \in CoefVals, b2 \in CoefVals, c2 \in CoefVals, d2 \in CoefVals,
          junk \in JunkVals :
          LET e == op_mul(plane_coef(a1, b1, c1, d1).ent,
                          plane_coef(a2, b2, c2, d2).ent, junk).out
          IN /\ src' = e
             /\ named' = bivector_from_entity(e)
    /\ ctor' = "bivector_from_product"
    /\ UNCHANGED <<validate, aborted, entityVars>>

\* point q = named; for a named value whose base is entity<0b1000>.
PointFromEntity ==
    /\ ctor \in {"default", "coef"}
    /\ named.ent.mask = 8
    /\ src' = named.ent
    /\ named' = point_from_entity(named.ent)
    /\ ctor' = "point_from_entity"
    /\ UNCHANGED <<validate, aborted, entityVars>>

\* direction d = e; for an entity<0b1000> e of lanes (h, z, y, x), counted
\* in units of 0.5e-7.  A failed assertion aborts: no value is constructed.
DirectionFromEntity ==
    /\ ctor = "none"
    /\ \E h \in TickVals, x \in CoefVals, y \in CoefVals, z \in CoefVals :
          LET e == [mask |-> 8, parts |-> << <<h, z, y, x>> >>]
              r == direction_from_entity(e, validate)
          IN /\ src' = e
             /\ aborted' = r.aborted
             /\ named' = IF r.aborted THEN named ELSE r.value
    /\ ctor' = "direction_from_entity"
    /\ UNCHANGED <<validate, entityVars>>

\* The constructors of the named types, by themselves.
NextCtors ==
    \/ MotorCoef
    \/ PlaneCoef
    \/ LineCoef
    \/ IdealLineCoef
    \/ BivectorCoef
    \/ PointCoef
    \/ DirectionCoef
    \/ ConstructDefault
    \/ CopyNamed
    \/ BivectorFromEntity
    \/ PointFromEntity
    \/ DirectionFromEntity

SpecCtors == InitNamed /\ [][NextCtors]_vars

\* The constructors, and the conversion of a product.
NextNamed ==
    \/ NextCtors
    \/ BivectorFromProduct

SpecNamed == InitNamed /\ [][NextNamed]_vars

\* --------------------------------------------------- the data model's terms

\* Slot i is materialised in an entity of mask M.
Has(M, i) == i \in PresentSlots(M)

\* Partitions are stored in ascending slot order with no gaps: slot i sits
\* after the present slots below it.
Rank(M, i) == Cardinality({j \in PresentSlots(M) : j < i})

SlotOf(e, i) == e.parts[Rank(e.mask, i) + 1]

WellFormed(e) ==
    /\ e.mask \in Masks
    /\ Len(e.parts) = Cardinality(PresentSlots(e.mask))

\* ------------------------------------------------------------------ claims

\* The kernel destination table of the product (slot pair -> output
\* slots); element [i+1][j+1] is the entry of row p_i, column p_j.
DestinationTable ==
    << << {1, 2}, {0, 3}, {0, 3}, {1, 2} >>,
       << {0, 3}, {1}, {2}, {0, 3} >>,
       << {0, 3}, {2}, {}, {0, 3} >>,
       << {1, 2}, {0, 3}, {0, 3}, {1, 2} >> >>

\* C1: for non-empty M1, M2 the output mask of A*B has bit k set if and
\* only if some slot i of M1 and slot j of M2 have k in their table entry.
C1_MaskMatchesTable ==
    (op = "mul" /\ lhs.mask # 0 /\ rhs.mask # 0) =>
        \A k \in Slots :
            Has(out.mask, k) <=>
                \E i \in PresentSlots(lhs.mask), j \in PresentSlots(rhs.mask) :
                    k \in DestinationTable[i + 1][j + 1]

\* "M.(pa|pb)": slot a or slot b is present in M.
HasAny(M, S) == \E i \in S : Has(M, i)

FormulaP0(M1, M2) ==
    \/ (Has(M1, 0) /\ HasAny(M2, {1, 2}))
    \/ (HasAny(M1, {1, 2}) /\ Has(M2, 0))
    \/ (Has(M1, 1) /\ Has(M2, 3))
    \/ (Has(M1, 3) /\ Has(M2, 1))

FormulaP1(M1, M2) ==
    \/ (HasAny(M1, {0, 3}) /\ HasAny(M2, {0, 3}))
    \/ (Has(M1, 1) /\ Has(M2, 1))

FormulaP2(M1, M2) ==
    \/ (HasAny(M1, {0, 3}) /\ HasAny(M2, {0, 3}))
    \/ (Has(M1, 1) /\ Has(M2, 2))
    \/ (Has(M1, 2) /\ Has(M2, 1))

FormulaP3(M1, M2) ==
    \/ (HasAny(M1, {1, 2}) /\ HasAny(M2, {0, 3}))
    \/ (HasAny(M1, {0, 3}) /\ HasAny(M2, {1, 2}))

\* C2: for all masks 0..15 the four bits of the output mask of operator*
\* equal the four output-mask bit formulas.
C2_MaskFormulas ==
    op = "mul" =>
        /\ out.mask \in Masks
        /\ Has(out.mask, 0) <=> FormulaP0(lhs.mask, rhs.mask)
        /\ Has(out.mask, 1) <=> FormulaP1(lhs.mask, rhs.mask)
        /\ Has(out.mask, 2) <=> FormulaP2(lhs.mask, rhs.mask)
        /\ Has(out.mask, 3) <=> FormulaP3(lhs.mask, rhs.mask)

\* A product whose p1 and p2 bits rest on the terms written with 1001
\* alone, the left operand having slot p3 only.
C2_Witness ==
    /\ op = "mul"
    /\ lhs.mask = 8
    /\ rhs.mask = 1
    /\ out.mask = 6

\* The kernel calls the product of a by b must make.
ExpectedCalls(a, b) ==
    {<<i, j, SlotOf(a, i), SlotOf(b, j)>> :
        <<i, j>> \in {ij \in PresentSlots(a.mask) \X PresentSlots(b.mask) :
                         ij # <<2, 2>>}}

\* The output for slot k of the call gp_ij(A.slot_i, B.slot_j) if it is one
\* of the expected calls and slot k is among its destinations, else zero.
KernelOut(a, b, i, j, k) ==
    IF /\ Has(a.mask, i)
       /\ Has(b.mask, j)
       /\ <<i, j, SlotOf(a, i), SlotOf(b, j)>> \in ExpectedCalls(a, b)
       /\ k \in DestinationTable[i + 1][j + 1]
    THEN gp(i, j, SlotOf(a, i), SlotOf(b, j))[k]
    ELSE Set1Ps(0)

RowSum(a, b, i, k) ==
    AddPs(AddPs(KernelOut(a, b, i, 0, k), KernelOut(a, b, i, 1, k)),
          AddPs(KernelOut(a, b, i, 2, k), KernelOut(a, b, i, 3, k)))

\* Zero plus the output for slot k of every expected call, each once.
SumOfCalls(a, b, k) ==
    AddPs(AddPs(RowSum(a, b, 0, k), RowSum(a, b, 1, k)),
          AddPs(RowSum(a, b, 2, k), RowSum(a, b, 3, k)))

\* C3: gp_ij is called exactly when slot i of A and slot j of B are
\* present and (i, j) is not (p2, p2), once, with (A.slot_i, B.slot_j) in
\* that order; and every slot of the result mask holds the lane-wise sum
\* of the outputs of those calls for that slot.
C3_KernelsAndSums ==
    op = "mul" =>
        /\ {calls[n] : n \in 1..Len(calls)} = ExpectedCalls(lhs, rhs)
        /\ Len(calls) = Cardinality(ExpectedCalls(lhs, rhs))
        /\ WellFormed(out)
        /\ \A k \in Slots :
              Has(out.mask, k) =>
                  SlotOf(out, k) = SumOfCalls(lhs, rhs, k)

\* All fifteen kernels called, on operands that differ, every slot of the
\* result present and non-zero.
C3_Witness ==
    /\ op = "mul"
    /\ lhs.mask = 15
    /\ rhs.mask = 15
    /\ lhs # rhs
    /\ Len(calls) = 15
    /\ out.mask = 15
    /\ \A k \in Slots : SlotOf(out, k) # Set1Ps(0)

AddSubAsSpecified(Add, a, b, o) ==
    /\ WellFormed(o)
    /\ \A i \in Slots : Has(o.mask, i) <=> (Has(a.mask, i) \/ Has(b.mask, i))
    /\ \A i \in Slots : \A k \in 1..4 :
          Has(o.mask, i) =>
             SlotOf(o, i)[k] =
                IF Has(a.mask, i) /\ Has(b.mask, i)
                THEN (IF Add THEN SlotOf(a, i)[k] + SlotOf(b, i)[k]
                             ELSE SlotOf(a, i)[k] - SlotOf(b, i)[k])
                ELSE IF Has(a.mask, i) THEN SlotOf(a, i)[k]
                ELSE (IF Add THEN SlotOf(b, i)[k] ELSE 0 - SlotOf(b, i)[k])

\* C4: A+B and A-B have mask M1|M2, hold popcount(M1|M2) partitions packed
\* in ascending slot order, and each slot is the lane-wise sum/difference
\* (present in both), the left partition (left only), the right partition
\* or its negation (right only), and absent when absent in both.
C4_AddSub ==
    /\ op = "add" => AddSubAsSpecified(TRUE, lhs, rhs, out)
    /\ op = "sub" => AddSubAsSpecified(FALSE, lhs, rhs, out)

\* A subtraction with a left-only slot (p0), a shared slot (p1), a
\* right-only slot (p2) and a slot absent in both (p3).
C4_Witness ==
    /\ op = "sub"
    /\ lhs.mask = 3
    /\ rhs.mask = 6
    /\ out.mask = 7
    /\ SlotOf(out, 2) # SlotOf(rhs, 2)

\* C5: for M1|M2 = M1 the rvalue add_sub returns the same mask and the same
\* lanes as the const add_sub on the same operands.
C5_RvalueSameAsConst ==
    (op \in {"add_rv", "sub_rv"} /\ BitOr(lhs.mask, rhs.mask) = lhs.mask) =>
        \A junk \in JunkVals : out = add_sub(op = "add_rv", lhs, rhs, junk)

ReverseSign(i, k) ==
    IF i = 0 THEN 1
    ELSE IF i = 3 THEN -1
    ELSE IF k = 0 THEN 1 ELSE -1

ReverseAsSpecified(a, o) ==
    /\ o.mask = a.mask
    /\ WellFormed(o)
    /\ \A i \in Slots : \A k \in Lanes :
          Has(a.mask, i) => SlotOf(o, i)[k + 1] = ReverseSign(i, k) * SlotOf(a, i)[k + 1]
    /\ a.mask = 1 => o = a
    /\ (a.mask = 2 /\ a.parts[1][1] = 0) => o.parts[1] = XorSignPs(a.parts[1])
    /\ a.mask = 8 => o.parts[1] = XorSignPs(a.parts[1])

\* C6: ~A has the mask of A, leaves A unchanged, keeps p0, keeps lane 0 and
\* negates lanes 1..3 of p1 and of p2, negates all of p3; so ~P = P for a
\* plane, ~L = -L for a line and ~Pt = -Pt for a point.
C6_Reverse ==
    [][op' = "reverse" => (lhs' = lhs /\ ReverseAsSpecified(lhs, out'))]_vars

C6_Witness ==
    /\ op = "reverse"
    /\ lhs.mask = 15
    /\ out # lhs

\* C7: ~~A has the mask and every lane of A.
C7_Involution == op = "reverse2" => out = lhs

C7_Witness ==
    /\ op = "reverse2"
    /\ lhs.mask = 15
    /\ out = lhs

\* The slot table: the coefficient each lane of each slot carries.
SlotTable ==
    << << "e3", "e2", "e1", "e0" >>,
       << "scalar", "e12", "e31", "e23" >>,
       << "e0123", "e01", "e02", "e03" >>,
       << "e123", "e021", "e013", "e032" >> >>

\* The reversed-index names and the coefficient each is the negation of.
ReversedNames ==
    [e21 |-> "e12", e13 |-> "e31", e32 |-> "e23",
     e10 |-> "e01", e20 |-> "e02", e30 |-> "e03"]

CoefficientOf(e, name) ==
    LET at == CHOOSE sl \in Slots \X Lanes : SlotTable[sl[1] + 1][sl[2] + 1] = name
    IN IF Has(e.mask, at[1]) THEN SlotOf(e, at[1])[at[2] + 1] ELSE 0

\* C8: an accessor returns 0 when the slot of its coefficient is absent,
\* and otherwise the lane of the slot table read from the slot's packed
\* partition, negated for the reversed-index names.
C8_Accessors ==
    op = "access" =>
        /\ acc \in AccessorNames
        /\ val = IF acc \in DOMAIN ReversedNames
                 THEN 0 - CoefficientOf(lhs, ReversedNames[acc])
                 ELSE CoefficientOf(lhs, acc)

\* A reversed-index accessor on an entity whose p1 is not its first slot in
\* the table but its first stored partition.
C8_Witness ==
    /\ op = "access"
    /\ acc = "e13"
    /\ lhs.mask = 14
    /\ val # 0
    /\ val = 0 - lhs.parts[1][3]

\* C9: every value of type line, ideal_line or bivector, however it was
\* constructed, has lane 0 of each of its partitions equal to 0.
C9_LaneZeroIsZero ==
    named.type \in {"line", "ideal_line", "bivector"} =>
        \A n \in 1..Len(named.ent.parts) : named.ent.parts[n][1] = 0

WithinEps(h) == (0 - Eps) < h /\ h < Eps

\* C10: converting an entity of mask p3 to a direction aborts, with
\* validation enabled, if and only if lane 0 of the source is not strictly
\* within 1e-7 of zero, and otherwise yields a direction equal to the
\* source; with validation disabled it never aborts and copies lane 0 as
\* it is; no other constructor aborts.
C10_DirectionValidation ==
    /\ aborted => (ctor = "direction_from_entity" /\ validate
                      /\ ~WithinEps(src.parts[1][1]))
    /\ (ctor = "direction_from_entity" /\ ~aborted) =>
          /\ validate => WithinEps(src.parts[1][1])
          /\ named = [type |-> "direction", ent |-> src]

\* The conversion aborts on a source whose lane 0 is exactly the bound.
C10_Witness ==
    /\ ctor = "direction_from_entity"
    /\ validate
    /\ aborted
    /\ src.parts[1][1] = Eps

\* The product plane(1,0,0,0) * plane(0,1,0,0) has been taken.
UnitPlanesMultiplied ==
    /\ op = "mul"
    /\ lhs = plane_coef(1, 0, 0, 0).ent
    /\ rhs = plane_coef(0, 1, 0, 0).ent

\* C11 as stated: plane(1,0,0,0) * plane(0,1,0,0) has the mask of line
\* (slot p1 only), e12() = 1 and every other coefficient 0.
C11_UnitPlanesGiveLine ==
    UnitPlanesMultiplied =>
        /\ out.mask = line_coef(0, 0, 0).ent.mask
        /\ accessor(out, "e12") = 1
        /\ \A name \in AccessorNames \ {"e12", "e21"} : accessor(out, name) = 0

\* C11 amended: plane(1,0,0,0) * plane(0,1,0,0) has slots p1 and p2 (the
\* mask of bivector, the destinations of gp00), with e12() = 1 (so
\* e21() = -1) and every other coefficient 0; the p2 slot is all zero.
C11_UnitPlanesGiveE12 ==
    UnitPlanesMultiplied =>
        /\ out.mask = 6
        /\ out.mask = bivector_coef(0, 0, 0, 0, 0, 0).ent.mask
        /\ accessor(out, "e12") = 1
        /\ accessor(out, "e21") = -1
        /\ \A name \in AccessorNames \ {"e12", "e21"} : accessor(out, name) = 0
        /\ SlotOf(out, 2) = Set1Ps(0)

C11_Witness ==
    /\ UnitPlanesMultiplied
    /\ calls = << <<0, 0, <<0, 0, 1, 0>>, <<0, 1, 0, 0>> >> >>
    /\ accessor(out, "e12") = 1

\* C12: for non-empty M1 and M2 the output mask of A*B is non-empty, and
\* the result owns at least one partition.
C12_ProductNotDegenerate ==
    (op = "mul" /\ lhs.mask # 0 /\ rhs.mask # 0) =>
        /\ out.mask # 0
        /\ partition_count(out.mask) >= 1
        /\ Len(out.parts) >= 1

\* C13: the storage index a raw accessor uses is below partition_count,
\* for every mask and every slot, present or not; for a present slot it is
\* the number of present slots below it, so that two present slots never
\* share a partition.
C13_RawIndexInsideStorage ==
    op \in {"raw", "rawf"} =>
        /\ raw.index < partition_count(lhs.mask)
        /\ Has(lhs.mask, raw.slot) =>
              /\ raw.index = Rank(lhs.mask, raw.slot)
              /\ raw.reg = SlotOf(lhs, raw.slot)
        /\ \A i \in PresentSlots(lhs.mask), j \in PresentSlots(lhs.mask) :
              i # j => partition_offsets(lhs.mask)[i + 1] # partition_offsets(lhs.mask)[j + 1]

====
